---- MODULE Spec2Model ----
(***************************************************************************)
(* Drag / drop / picking core of the desk simulator: the object collection *)
(* owned by App, the PhysicsEngine operations on it and the window-event   *)
(* handlers that drive them.                                               *)
(*                                                                         *)
(* Arithmetic.  f32 values are fixed-point integers in units of 0.0001     *)
(* (Unit = 1.0), so 0.001 is 10, 0.01 is 100 and 0.5 is 5000.  A product   *)
(* of two values is rounded to the nearest unit.                           *)
(***************************************************************************)
EXTENDS Integers, Sequences, FiniteSets, TLC

Unit == 100 * 100

Abs(a) == IF a < 0 THEN -a ELSE a

\* n / d rounded to the nearest integer (d > 0)
RDiv(n, d) == (n + d \div 2) \div d

\* f32 product a * b
Mul(a, b) == RDiv(a * b, Unit)

\* f32 quotient a / b (b # 0)
Div(a, b) == IF b > 0 THEN RDiv(a * Unit, b) ELSE -RDiv(a * Unit, -b)

\* floor of the square root of n, 0 <= n < 2^31, by bisection on
\* lo <= sqrt(n) < hi
RECURSIVE SqrtBetween(_, _, _)
SqrtBetween(n, lo, hi) ==
    IF hi - lo <= 1 THEN lo
    ELSE LET mid == (lo + hi) \div 2
         IN  IF mid * mid <= n THEN SqrtBetween(n, mid, hi)
             ELSE SqrtBetween(n, lo, mid)

ISqrt(n) == SqrtBetween(n, 0, IF n < 46340 THEN n + 1 ELSE 46341)

\* f32::clamp asserts min <= max: the call panics otherwise
clamp_panics(min, max) == min > max

\* f32::clamp(self, min, max), for min <= max
clamp(v, min, max) == IF v < min THEN min ELSE IF v > max THEN max ELSE v

Vec3(x0, y0, z0) == [x |-> x0, y |-> y0, z |-> z0]

VAdd(a, b) == Vec3(a.x + b.x, a.y + b.y, a.z + b.z)

VSub(a, b) == Vec3(a.x - b.x, a.y - b.y, a.z - b.z)

VScale(a, t) == Vec3(Mul(a.x, t), Mul(a.y, t), Mul(a.z, t))

dot(a, b) == Mul(a.x, b.x) + Mul(a.y, b.y) + Mul(a.z, b.z)

\* Vec3::length: the square root of the (unrounded) sum of squares
length(a) == ISqrt(a.x * a.x + a.y * a.y + a.z * a.z)

None == 0

(***************************************************************************)
(* Configuration (CONFIG) and the model's bounds                           *)
(***************************************************************************)

\* CONFIG.desk.height: the desk surface Y (0.75)
DeskHeight == 7500

\* CONFIG.desk.width (10.0) and CONFIG.desk.depth (7.0)
DeskWidth == 100000

DeskDepth == 70000

\* CONFIG.physics.drop_speed (0.99)
DropSpeed == 9900

\* CONFIG.camera.position: above the desk centre, 2.0 over the surface
CameraPosition == Vec3(0, 27500, 0)

\* The lift update_dragging is given while an object is held: the height of
\* the drag plane over the desk (0.5)
LiftHeight == 5000

\* Most objects ever created (ids 1 .. MaxId are handed out, none reused)
MaxId == 2

\* Resting heights above this are not explored (they can grow without bound)
MaxY == 17500

\* Rotation about Y is followed for this many scroll notches either way
MaxRotation == 1

(***************************************************************************)
(* desk_object.rs                                                          *)
(***************************************************************************)

ObjectType == {"Clock", "Lamp", "Plant", "Coffee", "Laptop", "Notebook",
               "PenHolder", "Books", "PhotoFrame", "Globe", "Trophy",
               "Hourglass", "Metronome", "Paper", "Magazine", "MusicPlayer",
               "Pen"}

\* ObjectType::physics: the fields the physics engine reads
physics(object_type) ==
    CASE object_type = "Clock" ->
           [height |-> 6000, base_offset |-> 3500, no_stacking_on_top |-> TRUE]
      [] object_type = "Lamp" ->
           [height |-> 9000, base_offset |-> 0, no_stacking_on_top |-> FALSE]
      [] object_type = "Plant" ->
           [height |-> 5000, base_offset |-> 0, no_stacking_on_top |-> FALSE]
      [] object_type = "Coffee" ->
           [height |-> 3000, base_offset |-> 0, no_stacking_on_top |-> FALSE]
      [] object_type = "Laptop" ->
           [height |-> 3000, base_offset |-> 0, no_stacking_on_top |-> FALSE]
      [] object_type = "Notebook" ->
           [height |-> 1000, base_offset |-> 0, no_stacking_on_top |-> FALSE]
      [] object_type = "PenHolder" ->
           [height |-> 4000, base_offset |-> 0, no_stacking_on_top |-> FALSE]
      [] object_type = "Books" ->
           [height |-> 1500, base_offset |-> 0, no_stacking_on_top |-> FALSE]
      [] object_type = "PhotoFrame" ->
           [height |-> 5000, base_offset |-> 2500, no_stacking_on_top |-> TRUE]
      [] object_type = "Globe" ->
           [height |-> 5000, base_offset |-> 250, no_stacking_on_top |-> FALSE]
      [] object_type = "Trophy" ->
           [height |-> 4000, base_offset |-> 0, no_stacking_on_top |-> FALSE]
      [] object_type = "Hourglass" ->
           [height |-> 3500, base_offset |-> 150, no_stacking_on_top |-> FALSE]
      [] object_type = "Metronome" ->
           [height |-> 4500, base_offset |-> 0, no_stacking_on_top |-> FALSE]
      [] object_type = "Paper" ->
           [height |-> 100, base_offset |-> 0, no_stacking_on_top |-> FALSE]
      [] object_type = "Magazine" ->
           [height |-> 200, base_offset |-> 0, no_stacking_on_top |-> FALSE]
      [] object_type = "MusicPlayer" ->
           [height |-> 1500, base_offset |-> 0, no_stacking_on_top |-> FALSE]
      [] object_type = "Pen" ->
           [height |-> 200, base_offset |-> 0, no_stacking_on_top |-> FALSE]

\* DeskObject::new with original_y left at the position passed in
DeskObject_new_original_y_unset(id, object_type, position) ==
    LET y == position.y + physics(object_type).base_offset
    IN  [id |-> id,
         object_type |-> object_type,
         position |-> Vec3(position.x, y, position.z),
         rotation |-> 0,
         scale |-> Unit,
         collision_radius_multiplier |-> Unit,
         collision_height_multiplier |-> Unit,
         is_dragging |-> FALSE,
         target_y |-> y,
         original_y |-> position.y]

\* DeskObject::new(id, object_type, position)
DeskObject_new(id, object_type, position) ==
    LET y == position.y + physics(object_type).base_offset
    IN  [id |-> id,
         object_type |-> object_type,
         position |-> Vec3(position.x, y, position.z),
         rotation |-> 0,
         scale |-> Unit,
         collision_radius_multiplier |-> Unit,
         collision_height_multiplier |-> Unit,
         is_dragging |-> FALSE,
         target_y |-> y,
         original_y |-> y]

base_radius(object_type) ==
    CASE object_type = "Lamp" -> 3000
      [] object_type = "Plant" -> 2500
      [] object_type = "Coffee" -> 1500
      [] object_type = "Laptop" -> 5000
      [] object_type = "Notebook" -> 3500
      [] object_type = "Books" -> 3000
      [] object_type = "Globe" -> 2500
      [] object_type = "Trophy" -> 2000
      [] object_type = "MusicPlayer" -> 2500
      [] OTHER -> 2000

\* DeskObject::collision_radius
collision_radius(obj) ==
    Mul(Mul(base_radius(obj.object_type), obj.scale),
        obj.collision_radius_multiplier)

\* DeskObject::collision_height
collision_height(obj) ==
    Mul(Mul(physics(obj.object_type).height, obj.scale),
        obj.collision_height_multiplier)

(***************************************************************************)
(* physics.rs                                                              *)
(***************************************************************************)

\* PhysicsEngine::default: the engine's configuration
collision_radius_multiplier == Unit

collision_height_multiplier == Unit

desk_surface_y == DeskHeight

desk_bounds == [min_x |-> -(DeskWidth \div 2), max_x |-> DeskWidth \div 2,
                min_z |-> -(DeskDepth \div 2), max_z |-> DeskDepth \div 2]

\* PhysicsEngine::clamp_to_desk
clamp_to_desk(position, radius) ==
    Vec3(clamp(position.x, desk_bounds.min_x + radius, desk_bounds.max_x - radius),
         position.y,
         clamp(position.z, desk_bounds.min_z + radius, desk_bounds.max_z - radius))

\* clamp_to_desk panics: one of its two clamp ranges is inverted
clamp_to_desk_panics(radius) ==
    \/ clamp_panics(desk_bounds.min_x + radius, desk_bounds.max_x - radius)
    \/ clamp_panics(desk_bounds.min_z + radius, desk_bounds.max_z - radius)

\* check_collision with the first object's radius counted twice
check_collision_first_radius_twice(obj1, obj2) ==
    IF obj1.id = obj2.id THEN FALSE
    ELSE LET r1 == Mul(collision_radius(obj1), collision_radius_multiplier)
             dx == obj1.position.x - obj2.position.x
             dz == obj1.position.z - obj2.position.z
         IN  Mul(dx, dx) + Mul(dz, dz) < Mul(r1 + r1, r1 + r1)

\* check_collision that measures the distance in three dimensions
check_collision_with_height(obj1, obj2) ==
    IF obj1.id = obj2.id THEN FALSE
    ELSE LET r1 == Mul(collision_radius(obj1), collision_radius_multiplier)
             r2 == Mul(collision_radius(obj2), collision_radius_multiplier)
             dx == obj1.position.x - obj2.position.x
             dy == obj1.position.y - obj2.position.y
             dz == obj1.position.z - obj2.position.z
         IN  Mul(dx, dx) + Mul(dy, dy) + Mul(dz, dz) < Mul(r1 + r2, r1 + r2)

\* PhysicsEngine::check_collision
check_collision(obj1, obj2) ==
    IF obj1.id = obj2.id THEN FALSE
    ELSE LET r1 == Mul(collision_radius(obj1), collision_radius_multiplier)
             r2 == Mul(collision_radius(obj2), collision_radius_multiplier)
             min_dist == r1 + r2
             dx == obj1.position.x - obj2.position.x
             dz == obj1.position.z - obj2.position.z
             dist_sq == Mul(dx, dx) + Mul(dz, dz)
         IN  dist_sq < Mul(min_dist, min_dist)

\* The loop of find_valid_position with the guard dist > 0.0 in place of
\* dist > 0.001
RECURSIVE push_loop_zero_guard(_, _, _, _)
push_loop_zero_guard(position, object, other_objects, i) ==
    IF i > Len(other_objects) THEN position
    ELSE LET other == other_objects[i]
             radius == Mul(collision_radius(object), collision_radius_multiplier)
             other_radius == Mul(collision_radius(other), collision_radius_multiplier)
             min_dist == radius + other_radius
             dx == position.x - other.position.x
             dz == position.z - other.position.z
             dist == ISqrt(dx * dx + dz * dz)
             push_dist == min_dist - dist + 500
         IN  IF other.id # object.id /\ dist < min_dist /\ dist > 0
               THEN push_loop_zero_guard(
                        Vec3(position.x + Mul(Div(dx, dist), push_dist),
                             position.y,
                             position.z + Mul(Div(dz, dist), push_dist)),
                        object, other_objects, i + 1)
             ELSE push_loop_zero_guard(position, object, other_objects, i + 1)

\* The loop of find_valid_position over other_objects[i ..], the position so far
RECURSIVE push_loop(_, _, _, _)
push_loop(position, object, other_objects, i) ==
    IF i > Len(other_objects) THEN position
    ELSE LET other == other_objects[i]
             radius == Mul(collision_radius(object), collision_radius_multiplier)
             other_radius == Mul(collision_radius(other), collision_radius_multiplier)
             min_dist == radius + other_radius
             dx == position.x - other.position.x
             dz == position.z - other.position.z
             dist == ISqrt(dx * dx + dz * dz)
             push_dist == min_dist - dist + 500
         IN  IF other.id = object.id
               THEN push_loop(position, object, other_objects, i + 1)
             ELSE IF dist < min_dist /\ dist > 10
               THEN push_loop(Vec3(position.x + Mul(Div(dx, dist), push_dist),
                                   position.y,
                                   position.z + Mul(Div(dz, dist), push_dist)),
                              object, other_objects, i + 1)
             ELSE push_loop(position, object, other_objects, i + 1)

\* PhysicsEngine::find_valid_position (it panics where clamp_to_desk does)
find_valid_position(target, object, other_objects) ==
    LET radius == Mul(collision_radius(object), collision_radius_multiplier)
    IN  clamp_to_desk(push_loop(clamp_to_desk(target, radius), object,
                                other_objects, 1),
                      radius)

\* The loop of calculate_resting_y over other_objects[i ..], highest_y so far
RECURSIVE resting_loop(_, _, _, _)
resting_loop(object, other_objects, i, highest_y) ==
    IF i > Len(other_objects) THEN highest_y
    ELSE LET other == other_objects[i]
             radius == Mul(collision_radius(object), collision_radius_multiplier)
             other_radius == Mul(collision_radius(other), collision_radius_multiplier)
             combined_radius == radius + other_radius
             dx == object.position.x - other.position.x
             dz == object.position.z - other.position.z
             dist_sq == Mul(dx, dx) + Mul(dz, dz)
             other_top == other.position.y
                            + Mul(collision_height(other), collision_height_multiplier)
             stack_y == other_top
                          + Mul(physics(object.object_type).base_offset, object.scale)
         IN  IF other.id = object.id
               THEN resting_loop(object, other_objects, i + 1, highest_y)
             ELSE IF physics(other.object_type).no_stacking_on_top
               THEN resting_loop(object, other_objects, i + 1, highest_y)
             ELSE IF dist_sq < Mul(Mul(combined_radius, combined_radius), 5000)
                     /\ stack_y > highest_y
               THEN resting_loop(object, other_objects, i + 1, stack_y)
             ELSE resting_loop(object, other_objects, i + 1, highest_y)

\* base_y of calculate_resting_y
base_y(object) ==
    desk_surface_y + Mul(physics(object.object_type).base_offset, object.scale)

\* calculate_resting_y without its loop: no stacking
calculate_resting_y_base_only(object, other_objects) == base_y(object)

\* calculate_resting_y with highest_y starting at 0 instead of base_y
calculate_resting_y_from_zero(object, other_objects) ==
    resting_loop(object, other_objects, 1, 0)

\* PhysicsEngine::calculate_resting_y
calculate_resting_y(object, other_objects) ==
    resting_loop(object, other_objects, 1, base_y(object))

\* update_dragging without the call of clamp_to_desk
update_dragging_unclamped(object, target_xz, lift_height) ==
    [object EXCEPT !.position = Vec3(target_xz.x, object.original_y + lift_height,
                                      target_xz.z),
                   !.is_dragging = TRUE]

\* PhysicsEngine::update_dragging
update_dragging(object, target_xz, lift_height) ==
    LET radius == collision_radius(object)
        target == clamp_to_desk(target_xz, radius)
    IN  [object EXCEPT !.position = Vec3(target.x, object.original_y + lift_height,
                                          target.z),
                       !.is_dragging = TRUE]

\* update_dropping that stops moving once within 0.1 of target_y
update_dropping_stops_early(object, drop_speed) ==
    IF ~object.is_dragging /\ Abs(object.position.y - object.target_y) > 1000
    THEN LET diff == object.target_y - object.position.y
             y == object.position.y + Mul(diff, drop_speed)
             snapped == IF Abs(y - object.target_y) < 100 THEN object.target_y ELSE y
         IN  [object |-> [object EXCEPT !.position.y = snapped], animating |-> TRUE]
    ELSE [object |-> object, animating |-> FALSE]

\* update_dropping with the snap distance 0.01 as its guard
update_dropping_guard_is_snap(object, drop_speed) ==
    IF ~object.is_dragging /\ Abs(object.position.y - object.target_y) > 100
    THEN LET diff == object.target_y - object.position.y
             y == object.position.y + Mul(diff, drop_speed)
             snapped == IF Abs(y - object.target_y) < 100 THEN object.target_y ELSE y
         IN  [object |-> [object EXCEPT !.position.y = snapped], animating |-> TRUE]
    ELSE [object |-> object, animating |-> FALSE]

\* update_dropping without the snap to target_y
update_dropping_without_snap(object, drop_speed) ==
    IF ~object.is_dragging /\ Abs(object.position.y - object.target_y) > 10
    THEN LET diff == object.target_y - object.position.y
             y == object.position.y + Mul(diff, drop_speed)
         IN  [object |-> [object EXCEPT !.position.y = y], animating |-> TRUE]
    ELSE [object |-> object, animating |-> FALSE]

\* update_dropping without the test !object.is_dragging
update_dropping_ignores_drag(object, drop_speed) ==
    IF Abs(object.position.y - object.target_y) > 10
    THEN LET diff == object.target_y - object.position.y
             y == object.position.y + Mul(diff, drop_speed)
             snapped == IF Abs(y - object.target_y) < 100 THEN object.target_y ELSE y
         IN  [object |-> [object EXCEPT !.position.y = snapped], animating |-> TRUE]
    ELSE [object |-> object, animating |-> FALSE]

\* PhysicsEngine::update_dropping: the object afterwards and the value returned
update_dropping(object, drop_speed) ==
    IF ~object.is_dragging /\ Abs(object.position.y - object.target_y) > 10
    THEN LET diff == object.target_y - object.position.y
             y == object.position.y + Mul(diff, drop_speed)
             snapped == IF Abs(y - object.target_y) < 100 THEN object.target_y ELSE y
         IN  [object |-> [object EXCEPT !.position.y = snapped], animating |-> TRUE]
    ELSE [object |-> object, animating |-> FALSE]

\* end_drag without its last assignment (original_y keeps its old value)
end_drag_keeps_original_y(object, other_objects) ==
    LET y == calculate_resting_y([object EXCEPT !.is_dragging = FALSE], other_objects)
    IN  [object EXCEPT !.is_dragging = FALSE, !.target_y = y]

\* end_drag that records the height the object was let go at as original_y
end_drag_original_y_at_release(object, other_objects) ==
    LET y == calculate_resting_y([object EXCEPT !.is_dragging = FALSE], other_objects)
    IN  [object EXCEPT !.is_dragging = FALSE, !.target_y = y,
                       !.original_y = object.position.y]

\* PhysicsEngine::end_drag
end_drag(object, other_objects) ==
    LET y == calculate_resting_y([object EXCEPT !.is_dragging = FALSE], other_objects)
    IN  [object EXCEPT !.is_dragging = FALSE, !.target_y = y, !.original_y = y]

\* ray_plane_intersection without the test t < 0
ray_plane_intersection_behind_too(ray_origin, ray_direction, plane_point, plane_normal) ==
    LET denom == dot(plane_normal, ray_direction)
    IN  IF Abs(denom) < 1 THEN [hit |-> FALSE]
        ELSE LET t == Div(dot(VSub(plane_point, ray_origin), plane_normal), denom)
             IN  [hit |-> TRUE,
                  point |-> VAdd(ray_origin, VScale(ray_direction, t))]

\* ray_plane_intersection: [hit |-> FALSE] is None
ray_plane_intersection(ray_origin, ray_direction, plane_point, plane_normal) ==
    LET denom == dot(plane_normal, ray_direction)
    IN  IF Abs(denom) < 1 THEN [hit |-> FALSE]
        ELSE LET t == Div(dot(VSub(plane_point, ray_origin), plane_normal), denom)
             IN  IF t < 0 THEN [hit |-> FALSE]
                 ELSE [hit |-> TRUE,
                       point |-> VAdd(ray_origin, VScale(ray_direction, t))]

(***************************************************************************)
(* main.rs: the state of App                                               *)
(***************************************************************************)

VARIABLES
    objects,              \* state.objects, in collection order
    next_id,              \* the id state.next_id() hands out next
    dragging_object_id,   \* Option<u64>: None or the active drag id
    left_mouse_down,
    mouse_position,       \* the ray the cursor position unprojects to
    camera,               \* the camera's look direction (the crosshair ray)
    pointer_locked,       \* ui_state.pointer_locked
    crosshair_target_id   \* ui_state.crosshair_target_id

vars == <<objects, next_id, dragging_object_id, left_mouse_down, mouse_position,
          camera, pointer_locked, crosshair_target_id>>

\* App.shift_pressed is written only by the shift keys, which change nothing
\* else, and the panels of UiState (left_sidebar_open, right_sidebar_open,
\* selected_object_id) only by clicks and keys; they are read only to choose
\* a branch.  A handler that reads one of them takes its value as an input,
\* so every value it can have at that point is followed.
ui_vars == <<pointer_locked, crosshair_target_id>>

(***************************************************************************)
(* Inputs.  Ray directions are unit vectors; a ray is named by its index.  *)
(***************************************************************************)

\* 1: down onto the desk, right of the centre; 2: level (parallel to the drag
\* plane, over every object)
Rays == <<Vec3(6000, -8000, 0), Vec3(0, 0, -10000)>>

RayIds == 1 .. Len(Rays)

\* Rays 1 and 2, then 3: upwards, away from the drag plane; 4: straight down
AllRays == Rays \o <<Vec3(6000, 8000, 0), Vec3(0, -10000, 0)>>

AllRayIds == 1 .. Len(AllRays)

\* Object types the palette and the A key add in the model
AddTypes == {"Books", "Globe"}

\* add_object: the random (x, z) a new object lands on
AddPositions == {Vec3(11250, desk_surface_y, 0)}

\* Mouse wheel amounts: a fifth of a notch
Scrolls == {2000}

\* The scale values the model follows (1.0 and 1.03)
Scales == {10000, 10300}

(***************************************************************************)
(* state.rs: the collection                                                *)
(***************************************************************************)

Ids(objs) == {objs[i].id : i \in 1 .. Len(objs)}

\* AppState::get_object: the object with this id (the caller checks it exists)
get_object(objs, id) == objs[CHOOSE i \in 1 .. Len(objs) : objs[i].id = id]

\* AppState::remove_object
remove_object(objs, id) == SelectSeq(objs, LAMBDA o : o.id # id)

\* `if let Some(obj) = get_object_mut(id) { *obj = new }`
set_object(objs, id, new) ==
    [i \in 1 .. Len(objs) |-> IF objs[i].id = id THEN new ELSE objs[i]]

(***************************************************************************)
(* main.rs: picking and dragging                                           *)
(***************************************************************************)

\* The picking loop without the test t < best_dist: the last object near the
\* ray wins
RECURSIVE pick_loop_last_hit(_, _, _, _, _, _)
pick_loop_last_hit(objs, ray_origin, ray_world, i, best_id, best_dist) ==
    IF i > Len(objs) THEN best_id
    ELSE LET obj == objs[i]
             to_obj == VSub(obj.position, ray_origin)
             t == dot(to_obj, ray_world)
             closest == VAdd(ray_origin, VScale(ray_world, t))
             dist == length(VSub(closest, obj.position))
             radius == Mul(collision_radius(obj), 15000)
         IN  IF t >= 0 /\ dist < radius
               THEN pick_loop_last_hit(objs, ray_origin, ray_world, i + 1, obj.id, t)
               ELSE pick_loop_last_hit(objs, ray_origin, ray_world, i + 1,
                                       best_id, best_dist)

\* The picking loop with t <= best_dist: of objects at equal t the last wins
RECURSIVE pick_loop_last_of_equal(_, _, _, _, _, _)
pick_loop_last_of_equal(objs, ray_origin, ray_world, i, best_id, best_dist) ==
    IF i > Len(objs) THEN best_id
    ELSE LET obj == objs[i]
             to_obj == VSub(obj.position, ray_origin)
             t == dot(to_obj, ray_world)
             closest == VAdd(ray_origin, VScale(ray_world, t))
             dist == length(VSub(closest, obj.position))
             radius == Mul(collision_radius(obj), 15000)
         IN  IF t >= 0 /\ dist < radius /\ (best_dist = -1 \/ t <= best_dist)
               THEN pick_loop_last_of_equal(objs, ray_origin, ray_world, i + 1,
                                            obj.id, t)
               ELSE pick_loop_last_of_equal(objs, ray_origin, ray_world, i + 1,
                                            best_id, best_dist)

\* The loop shared by find_object_at_crosshair, find_object_at_cursor and
\* try_pick_object, over objs[i ..]; best_dist = -1 stands for f32::MAX
RECURSIVE pick_loop(_, _, _, _, _, _)
pick_loop(objs, ray_origin, ray_world, i, best_id, best_dist) ==
    IF i > Len(objs) THEN best_id
    ELSE LET obj == objs[i]
             to_obj == VSub(obj.position, ray_origin)
             t == dot(to_obj, ray_world)
             closest == VAdd(ray_origin, VScale(ray_world, t))
             dist == length(VSub(closest, obj.position))
             radius == Mul(collision_radius(obj), 15000)
         IN  IF t < 0
               THEN pick_loop(objs, ray_origin, ray_world, i + 1, best_id, best_dist)
             ELSE IF dist < radius /\ (best_dist = -1 \/ t < best_dist)
               THEN pick_loop(objs, ray_origin, ray_world, i + 1, obj.id, t)
             ELSE pick_loop(objs, ray_origin, ray_world, i + 1, best_id, best_dist)

\* App::find_object_at_crosshair, for the camera looking along ray cam
find_object_at_crosshair(objs, cam) ==
    pick_loop(objs, CameraPosition, AllRays[cam], 1, None, -1)

\* App::find_object_at_cursor, for the cursor on ray mp
find_object_at_cursor(objs, mp) ==
    pick_loop(objs, CameraPosition, AllRays[mp], 1, None, -1)

\* What a pick does to the collection once best_id is known
pick(objs, id) ==
    IF id # None /\ id \in Ids(objs)
    THEN set_object(objs, id, [get_object(objs, id) EXCEPT !.is_dragging = TRUE])
    ELSE objs

\* App::try_pick_object_crosshair
try_pick_object_crosshair ==
    LET id == find_object_at_crosshair(objects, camera)
    IN  /\ dragging_object_id' = IF id # None THEN id ELSE dragging_object_id
        /\ objects' = pick(objects, id)

\* App::try_pick_object
try_pick_object ==
    LET id == pick_loop(objects, CameraPosition, AllRays[mouse_position], 1, None, -1)
    IN  /\ dragging_object_id' = IF id # None THEN id ELSE dragging_object_id
        /\ objects' = pick(objects, id)

\* The body shared by update_drag and update_drag_crosshair: the collection
\* after a move along the ray with index r
drag_along(objs, drag_id, r) ==
    LET plane_y == desk_surface_y + 5000
        intersection == ray_plane_intersection(CameraPosition, AllRays[r],
                                               Vec3(0, plane_y, 0), Vec3(0, Unit, 0))
    IN  IF intersection.hit /\ drag_id # None /\ drag_id \in Ids(objs)
        THEN set_object(objs, drag_id,
                 [get_object(objs, drag_id) EXCEPT
                     !.position = Vec3(clamp(intersection.point.x, -45000, 45000),
                                       plane_y,
                                       clamp(intersection.point.z, -30000, 30000))])
        ELSE objs

\* App::update_drag
update_drag(objs, drag_id, mp) == drag_along(objs, drag_id, mp)

\* App::update_drag_crosshair
update_drag_crosshair(objs, drag_id, cam) == drag_along(objs, drag_id, cam)

\* A release that lets every object find its resting height anew
drop_dragged_resettles_all(objs, drag_id) ==
    IF drag_id # None /\ drag_id \in Ids(objs)
    THEN [i \in 1 .. Len(objs) |-> end_drag(objs[i], objs)]
    ELSE objs

\* The collection after `if let Some(id) = dragging_object_id.take() { end_drag }`
drop_dragged(objs, drag_id) ==
    IF drag_id # None /\ drag_id \in Ids(objs)
    THEN set_object(objs, drag_id, end_drag(get_object(objs, drag_id), objs))
    ELSE objs

\* Resting heights stay within the explored range
WithinModel(objs) == \A i \in 1 .. Len(objs) : objs[i].target_y <= MaxY

\* release_pointer_lock without the `if let Some(id) = dragging_object_id.take()`
\* block: the lock goes, the drag stays
release_pointer_lock_keeps_drag ==
    /\ pointer_locked' = FALSE
    /\ crosshair_target_id' = None
    /\ UNCHANGED <<dragging_object_id, objects>>

\* App::release_pointer_lock
release_pointer_lock ==
    /\ pointer_locked' = FALSE
    /\ crosshair_target_id' = None
    /\ dragging_object_id' = None
    /\ objects' = drop_dragged(objects, dragging_object_id)
    /\ WithinModel(objects')

\* App::add_object
add_object(objs, id, object_type, position) ==
    Append(objs, DeskObject_new(id, object_type, position))

\* The physics loop of App::update
update(objs, drop_speed) ==
    [i \in 1 .. Len(objs) |->
        IF ~objs[i].is_dragging THEN update_dropping(objs[i], drop_speed).object
        ELSE objs[i]]

(***************************************************************************)
(* main.rs: App::new                                                       *)
(***************************************************************************)

Init ==
    /\ objects = <<>>
    /\ next_id = 1
    /\ dragging_object_id = None
    /\ left_mouse_down = FALSE
    /\ mouse_position = 2
    /\ camera = 1
    /\ pointer_locked = FALSE
    /\ crosshair_target_id = None

(***************************************************************************)
(* main.rs: App::handle_event, one action per window event                 *)
(***************************************************************************)

\* WindowEvent::Focused(false)
FocusLost ==
    /\ IF pointer_locked
       THEN release_pointer_lock
       ELSE UNCHANGED <<objects, dragging_object_id, pointer_locked,
                        crosshair_target_id>>
    /\ UNCHANGED <<next_id, left_mouse_down, mouse_position, camera>>

\* WindowEvent::MouseInput, left button pressed; sidebar_open is
\* left_sidebar_open || right_sidebar_open, granted is whether
\* request_pointer_lock obtains the cursor grab
MouseLeftPressed ==
    \E sidebar_open \in BOOLEAN, granted \in BOOLEAN :
        /\ left_mouse_down' = TRUE
        /\ IF ~pointer_locked /\ ~sidebar_open
           THEN /\ pointer_locked' = granted
                /\ UNCHANGED <<objects, dragging_object_id>>
           ELSE IF pointer_locked
           THEN /\ try_pick_object_crosshair
                /\ UNCHANGED pointer_locked
           ELSE /\ try_pick_object
                /\ UNCHANGED pointer_locked
        /\ UNCHANGED <<next_id, mouse_position, camera,
                       crosshair_target_id>>

\* The release with `if let Some(id) = dragging_object_id` in place of
\* `.take()`: the id of an object that is gone stays
MouseLeftReleased_keeps_missing_id ==
    /\ left_mouse_down' = FALSE
    /\ dragging_object_id' = IF dragging_object_id \in Ids(objects) THEN None
                              ELSE dragging_object_id
    /\ objects' = drop_dragged(objects, dragging_object_id)
    /\ WithinModel(objects')
    /\ UNCHANGED <<next_id, mouse_position, camera, ui_vars>>

\* WindowEvent::MouseInput, left button released
MouseLeftReleased ==
    /\ left_mouse_down' = FALSE
    /\ dragging_object_id' = None
    /\ objects' = drop_dragged(objects, dragging_object_id)
    /\ WithinModel(objects')
    /\ UNCHANGED <<next_id, mouse_position, camera, ui_vars>>

\* WindowEvent::MouseInput, right button pressed: in pointer-lock mode the
\* lock is released before a panel opens; in cursor mode only a panel changes
MouseRightPressed ==
    /\ IF pointer_locked
       THEN release_pointer_lock
       ELSE UNCHANGED <<objects, dragging_object_id, pointer_locked,
                        crosshair_target_id>>
    /\ UNCHANGED <<next_id, left_mouse_down, mouse_position, camera>>

\* WindowEvent::CursorMoved to a position that unprojects to ray mp
CursorMovedTo(mp) ==
    /\ mouse_position' = mp
    /\ objects' = IF ~pointer_locked /\ left_mouse_down
                     /\ dragging_object_id # None
                  THEN update_drag(objects, dragging_object_id, mp)
                  ELSE objects
    /\ crosshair_target_id' =
          IF pointer_locked THEN find_object_at_crosshair(objects', camera)
          ELSE crosshair_target_id
    /\ UNCHANGED <<next_id, dragging_object_id, left_mouse_down,
                   camera, pointer_locked>>

CursorMoved == \E mp \in RayIds : CursorMovedTo(mp)

\* A shift+scroll that also lets go of the object
scaled_and_released(obj, scroll) ==
    [obj EXCEPT !.scale = clamp(obj.scale + Mul(scroll, 1500), 3000, 30000),
                !.is_dragging = FALSE]

\* A shift+scroll with .min(3.0) in place of .clamp(0.3, 3.0)
scaled_without_lower_limit(obj, scroll) ==
    [obj EXCEPT !.scale = IF obj.scale + Mul(scroll, 1500) > 30000 THEN 30000
                          ELSE obj.scale + Mul(scroll, 1500)]

\* The object after a shift+scroll
scaled(obj, scroll) ==
    [obj EXCEPT !.scale = clamp(obj.scale + Mul(scroll, 1500), 3000, 30000)]

\* The object after a scroll: Quat::from_rotation_y(scroll * 0.2) * rotation,
\* kept as the angle about Y
rotated(obj, scroll) ==
    [obj EXCEPT !.rotation = obj.rotation + Mul(scroll, 2000)]

\* The collection after a MouseWheel event
mouse_wheel(scroll, shift_pressed) ==
    LET target_id ==
            IF dragging_object_id # None THEN dragging_object_id
            ELSE IF pointer_locked THEN crosshair_target_id
            ELSE find_object_at_cursor(objects, mouse_position)
    IN  IF target_id # None /\ target_id \in Ids(objects)
        THEN set_object(objects, target_id,
                 IF shift_pressed
                 THEN scaled(get_object(objects, target_id), scroll)
                 ELSE rotated(get_object(objects, target_id), scroll))
        ELSE objects

\* WindowEvent::MouseWheel
MouseWheel ==
    \E scroll \in Scrolls, shift_pressed \in BOOLEAN :
            /\ objects' = mouse_wheel(scroll, shift_pressed)
            /\ \A i \in 1 .. Len(objects') :
                  /\ objects'[i].scale \in Scales
                  /\ Abs(objects'[i].rotation) <= MaxRotation * 400
            /\ UNCHANGED <<next_id, dragging_object_id, left_mouse_down,
                           mouse_position, camera, ui_vars>>

\* WindowEvent::KeyboardInput, A pressed: add an object of the current type
\* (the T key cycles the current type and changes nothing else)
KeyA ==
    \E object_type \in AddTypes, position \in AddPositions :
        /\ next_id <= MaxId
        /\ objects' = add_object(objects, next_id, object_type, position)
        /\ next_id' = next_id + 1
        /\ UNCHANGED <<dragging_object_id, left_mouse_down,
                       mouse_position, camera, ui_vars>>

\* WindowEvent::KeyboardInput, Delete pressed
KeyDelete ==
    LET id_to_delete == IF dragging_object_id # None THEN dragging_object_id
                        ELSE crosshair_target_id
    IN  /\ dragging_object_id' = None
        /\ IF id_to_delete # None
           THEN /\ objects' = remove_object(objects, id_to_delete)
                /\ crosshair_target_id' = None
           ELSE UNCHANGED <<objects, crosshair_target_id>>
        /\ UNCHANGED <<next_id, left_mouse_down, mouse_position,
                       camera, pointer_locked>>

\* WindowEvent::KeyboardInput, Escape pressed: in pointer-lock mode the lock
\* is released; in cursor mode only the panels close
KeyEscape ==
    /\ IF pointer_locked
       THEN release_pointer_lock
       ELSE UNCHANGED <<objects, dragging_object_id, pointer_locked,
                        crosshair_target_id>>
    /\ UNCHANGED <<next_id, left_mouse_down, mouse_position, camera>>

\* DeviceEvent::MouseMotion (AppWrapper::device_event): the camera turns to ray cam
MouseMotionTo(cam) ==
    /\ pointer_locked
    /\ camera' = cam
    /\ objects' = IF dragging_object_id # None
                  THEN update_drag_crosshair(objects, dragging_object_id, cam)
                  ELSE objects
    /\ crosshair_target_id' = find_object_at_crosshair(objects', cam)
    /\ UNCHANGED <<next_id, dragging_object_id, left_mouse_down,
                   mouse_position, pointer_locked>>

MouseMotion == \E cam \in RayIds : MouseMotionTo(cam)

(***************************************************************************)
(* main.rs: App::process_ui_action, for the panel buttons that change the  *)
(* collection                                                              *)
(***************************************************************************)

UiActions == {"None", "AddObject", "ClearAll", "DeleteObject"}

process_ui_action(objs, action, id, object_type, position) ==
    CASE action = "AddObject" -> add_object(objs, next_id, object_type, position)
      [] action = "ClearAll" -> <<>>
      [] action = "DeleteObject" -> remove_object(objs, id)
      [] OTHER -> objs

(***************************************************************************)
(* main.rs: WindowEvent::RedrawRequested = App::update, then App::render,  *)
(* which handles the panel click of this frame, if any                     *)
(***************************************************************************)

RedrawRequested ==
    \E action \in UiActions, id \in 1 .. MaxId,
       object_type \in AddTypes, position \in AddPositions :
        /\ action = "AddObject" => next_id <= MaxId
        /\ action = "DeleteObject" => id \in Ids(objects)
        /\ objects' = process_ui_action(update(objects, DropSpeed), action, id,
                                        object_type, position)
        /\ next_id' = IF action = "AddObject" THEN next_id + 1 ELSE next_id
        /\ UNCHANGED <<dragging_object_id, left_mouse_down,
                       mouse_position, camera, pointer_locked,
                       crosshair_target_id>>

Next ==
    \/ FocusLost
    \/ MouseLeftPressed
    \/ MouseLeftReleased
    \/ MouseRightPressed
    \/ CursorMoved
    \/ MouseWheel
    \/ KeyA
    \/ KeyDelete
    \/ KeyEscape
    \/ MouseMotion
    \/ RedrawRequested

Spec == Init /\ [][Next]_vars

(***************************************************************************)
(* The drag state machine                                                  *)
(***************************************************************************)

Dragging(objs) == {i \in 1 .. Len(objs) : objs[i].is_dragging}

\* C1: in every reachable state at most one object of the collection has
\* is_dragging = true
C1_SingleDrag == Cardinality(Dragging(objects)) <= 1

\* C2: a left press handled while an active drag id is set is ignored: the
\* active drag id is unchanged and no further object starts dragging
C2_PickWhileDraggingIgnored ==
    [][(MouseLeftPressed /\ dragging_object_id # None)
         => /\ dragging_object_id' = dragging_object_id
            /\ Dragging(objects') \subseteq Dragging(objects)]_vars

\* The drag of object d was ended by end_drag on the collection objs
DragEnded(objs, d) ==
    (d # None /\ d \in Ids(objs))
      => LET before == get_object(objs, d)
             after == get_object(objects', d)
         IN  /\ d \in Ids(objects')
             /\ ~after.is_dragging
             /\ after.target_y = calculate_resting_y(before, objs)
             /\ after.original_y = after.target_y

\* C3: a left release handled while the active drag id is d and object d
\* exists leaves the active drag id None and object d with is_dragging false,
\* target_y = calculate_resting_y(d, the collection at release time) and
\* original_y = target_y
C3_ReleaseEndsDrag ==
    [][MouseLeftReleased
         => /\ dragging_object_id' = None
            /\ DragEnded(objects, dragging_object_id)]_vars

\* An object dropped from the drag plane by a release of the button, not yet
\* moved by a frame update
C3_Witness ==
    /\ dragging_object_id = None
    /\ ~left_mouse_down
    /\ \E i \in 1 .. Len(objects) :
          /\ ~objects[i].is_dragging
          /\ objects[i].position.y = desk_surface_y + 5000
          /\ objects[i].target_y = calculate_resting_y(objects[i], objects)
          /\ objects[i].target_y < objects[i].position.y
          /\ objects[i].original_y = objects[i].target_y

\* The three events that release the pointer lock
LockReleased ==
    pointer_locked /\ (KeyEscape \/ FocusLost \/ MouseRightPressed)

\* C4: Escape, loss of focus and a right click in pointer-lock mode end a drag
\* in the same step: afterwards pointer_locked is false, the active drag id
\* is None and the dragged object is what end_drag makes of it
C4_LockReleaseEndsDrag ==
    [][LockReleased
         => /\ ~pointer_locked'
            /\ dragging_object_id' = None
            /\ DragEnded(objects, dragging_object_id)
            /\ (dragging_object_id # None /\ dragging_object_id \in Ids(objects))
                  => get_object(objects', dragging_object_id)
                       = end_drag(get_object(objects, dragging_object_id), objects)]_vars

\* An object dropped from the drag plane while the button is still held: the
\* drag ended with the pointer lock, not with a release of the button
C4_Witness ==
    /\ ~pointer_locked
    /\ left_mouse_down
    /\ dragging_object_id = None
    /\ \E i \in 1 .. Len(objects) :
          /\ ~objects[i].is_dragging
          /\ objects[i].position.y = desk_surface_y + 5000
          /\ objects[i].target_y < objects[i].position.y

\* Where the ray with index r meets the drag plane
drag_plane_intersection(r) ==
    ray_plane_intersection(CameraPosition, AllRays[r],
                           Vec3(0, desk_surface_y + 5000, 0), Vec3(0, Unit, 0))

\* A move event along ray r that reaches update_drag or update_drag_crosshair
DragMove(r) ==
    /\ dragging_object_id # None
    /\ dragging_object_id \in Ids(objects)
    /\ \/ CursorMoved /\ mouse_position' = r /\ ~pointer_locked /\ left_mouse_down
       \/ MouseMotion /\ camera' = r

\* C5: a move event during a drag whose ray meets the drag plane leaves the
\* dragged object as update_dragging would for the intersection point: x/z
\* clamped by clamp_to_desk with the object's radius, y = original_y + the
\* lift height, is_dragging true
C5_MoveIsUpdateDragging ==
    [][\A r \in RayIds :
         (DragMove(r) /\ drag_plane_intersection(r).hit)
           => get_object(objects', dragging_object_id)
                = update_dragging(get_object(objects, dragging_object_id),
                                  drag_plane_intersection(r).point, LiftHeight)]_vars

\* An object that is neither held nor moved by the next frame update
Idle(obj) == ~obj.is_dragging /\ ~update_dropping(obj, DropSpeed).animating

\* C6 as stated: an idle object has position.y = target_y = original_y exactly
C6_IdleExact ==
    \A i \in 1 .. Len(objects) :
        Idle(objects[i])
          => /\ objects[i].position.y = objects[i].target_y
             /\ objects[i].target_y = objects[i].original_y

\* C6: an idle object has position.y within 0.001 of target_y, and
\* target_y = original_y
C6_IdleWithinTolerance ==
    \A i \in 1 .. Len(objects) :
        Idle(objects[i])
          => /\ Abs(objects[i].position.y - objects[i].target_y) <= 10
             /\ objects[i].target_y = objects[i].original_y

\* An object idle after a release, at rest a little off its target
C6_Witness ==
    /\ dragging_object_id = None
    /\ \E i \in 1 .. Len(objects) :
          /\ Idle(objects[i])
          /\ objects[i].position.y # objects[i].target_y
          /\ objects[i].target_y = calculate_resting_y(objects[i], objects)

(***************************************************************************)
(* Settling: App::update on one object with any gap to its target_y, for   *)
(* any configured drop speed                                               *)
(***************************************************************************)

\* Values of CONFIG.physics.drop_speed (0.1, 0.5, 0.99)
DropSpeeds == {1000, 5000, 9900}

\* position.y - target_y at the start
DropGaps == {-5000, -1000, -101, -100, -99, -50, -11, -10, -5, 0,
             5, 10, 11, 50, 99, 100, 101, 1000, 5000}

DropTypes == {"Books", "Globe", "Clock"}

\* position.y - target_y of the second object at the start
OtherGaps == {0, 5000}

DropInit ==
    \E object_type \in DropTypes, gap \in DropGaps, held \in BOOLEAN,
       other_gap \in OtherGaps, other_held \in BOOLEAN :
        LET new == DeskObject_new(1, object_type, Vec3(11250, desk_surface_y, 0))
            other == DeskObject_new(2, "Books", Vec3(-20000, desk_surface_y, 0))
        IN  /\ objects = <<[new EXCEPT !.position.y = new.target_y + gap,
                                       !.is_dragging = held],
                           [other EXCEPT !.position.y = other.target_y + other_gap,
                                         !.is_dragging = other_held]>>
            /\ next_id = 3
            /\ dragging_object_id = IF held THEN 1 ELSE IF other_held THEN 2
                                    ELSE None
            /\ left_mouse_down = (held \/ other_held)
            /\ mouse_position = 1
            /\ camera = 1
            /\ pointer_locked = FALSE
            /\ crosshair_target_id = None

\* App::update, one frame
Update ==
    \E drop_speed \in DropSpeeds :
        /\ objects' = update(objects, drop_speed)
        /\ UNCHANGED <<next_id, dragging_object_id, left_mouse_down,
                       mouse_position, camera, pointer_locked,
                       crosshair_target_id>>

\* Frames keep coming: the event loop polls and about_to_wait requests a
\* redraw after every pass
DropSpec == DropInit /\ [][Update]_vars /\ WF_vars(Update)

Gap(obj) == Abs(obj.position.y - obj.target_y)

\* C7: frame updates bring every object that is not held to within 0.01 of
\* its target_y, where it is idle and stays
C7_SettleConverges ==
    <>[](\A i \in 1 .. Len(objects) :
            ~objects[i].is_dragging => (Gap(objects[i]) <= 100 /\ Idle(objects[i])))

\* An object part-way through its fall: closer than it started, still far
C7_Witness ==
    \E i \in 1 .. Len(objects) :
        /\ ~objects[i].is_dragging
        /\ Gap(objects[i]) > 1000
        /\ Gap(objects[i]) < 5000

\* C8 as stated: on an object that is not held update_dropping returns false
\* if and only if position.y is within 0.01 of target_y
C8_FalseIffWithinSnap ==
    \A i \in 1 .. Len(objects), drop_speed \in DropSpeeds :
        ~objects[i].is_dragging
          => (~update_dropping(objects[i], drop_speed).animating
                <=> Gap(objects[i]) <= 100)

\* C8: on an object that is not held update_dropping returns false if and
\* only if position.y is within 0.001 of target_y
C8_FalseIffWithinGuard ==
    \A i \in 1 .. Len(objects), drop_speed \in DropSpeeds :
        ~objects[i].is_dragging
          => (~update_dropping(objects[i], drop_speed).animating
                <=> Gap(objects[i]) <= 10)

\* An object within 0.01 but not within 0.001 of target_y on which
\* update_dropping returns true
C8_Witness ==
    \E i \in 1 .. Len(objects) :
        /\ ~objects[i].is_dragging
        /\ Gap(objects[i]) > 10
        /\ Gap(objects[i]) <= 100
        /\ update_dropping(objects[i], DropSpeed).animating

(***************************************************************************)
(* Resting: a release over any other object, wherever it is                *)
(***************************************************************************)

RestTypes == {"Books", "Globe", "Clock"}

RestXs == {11250, 14250, 20000}

\* Heights of the other object: under the desk, on it, on the drag plane
RestYs == {0, desk_surface_y, desk_surface_y + 5000}

RestScales == {3000, Unit, 30000}

object_at(id, object_type, x, y, scale, held) ==
    [DeskObject_new(id, object_type, Vec3(x, desk_surface_y, 0))
        EXCEPT !.position.y = y, !.scale = scale, !.is_dragging = held]

RestInit ==
    \E held_id \in 1 .. 2, held_type \in RestTypes, held_scale \in RestScales,
       object_type \in RestTypes, x \in RestXs, y \in RestYs, scale \in RestScales :
        LET held == object_at(held_id, held_type, 11250, desk_surface_y + 5000,
                              held_scale, TRUE)
            other == object_at(3 - held_id, object_type, x, y, scale, FALSE)
        IN  /\ objects = IF held_id = 1 THEN <<held, other>> ELSE <<other, held>>
            /\ next_id = 3
            /\ dragging_object_id = held_id
            /\ left_mouse_down = TRUE
            /\ mouse_position = 1
            /\ camera = 1
            /\ pointer_locked = FALSE
            /\ crosshair_target_id = None

RestSpec == RestInit /\ [][MouseLeftReleased]_vars

\* C10: for every object and every collection calculate_resting_y returns at
\* least the object's base Y, desk_surface_y + base_offset * scale
C10_RestingAtLeastBase ==
    \A i \in 1 .. Len(objects) :
        calculate_resting_y(objects[i], objects) >= base_y(objects[i])

\* An object released over a stackable one that lies under the desk: it
\* rests at its base Y, above the other's top
C10_Witness ==
    /\ dragging_object_id = None
    /\ \E i, j \in 1 .. Len(objects) :
          /\ i # j
          /\ ~physics(objects[j].object_type).no_stacking_on_top
          /\ objects[j].position.x = objects[i].position.x
          /\ objects[j].position.y + collision_height(objects[j]) < desk_surface_y
          /\ objects[i].target_y = calculate_resting_y(objects[i], objects)
          /\ objects[i].target_y = base_y(objects[i])

(***************************************************************************)
(* Stacking: a release over any two other objects                          *)
(***************************************************************************)

StackTypes == {"Books", "Globe", "Clock"}

StackXs == {11250, 20000}

StackYs == {desk_surface_y, desk_surface_y + 5000}

StackScales == {Unit, 30000}

StackInit ==
    \E held_at \in 1 .. 3, held_type \in StackTypes, held_scale \in StackScales,
       t1 \in StackTypes, x1 \in StackXs, y1 \in StackYs, s1 \in StackScales,
       t2 \in StackTypes, x2 \in StackXs, y2 \in StackYs, s2 \in StackScales :
        LET held == object_at(1, held_type, 11250, desk_surface_y + 5000,
                              held_scale, TRUE)
            a == object_at(2, t1, x1, y1, s1, FALSE)
            b == object_at(3, t2, x2, y2, s2, FALSE)
        IN  /\ objects = CASE held_at = 1 -> <<held, a, b>>
                            [] held_at = 2 -> <<a, held, b>>
                            [] held_at = 3 -> <<a, b, held>>
            /\ next_id = 4
            /\ dragging_object_id = 1
            /\ left_mouse_down = TRUE
            /\ mouse_position = 1
            /\ camera = 1
            /\ pointer_locked = FALSE
            /\ crosshair_target_id = None

StackSpec == StackInit /\ [][MouseLeftReleased]_vars

\* other carries object: another id, stackable, and the squared horizontal
\* centre distance under half the squared sum of the effective radii
Supports(other, object) ==
    LET sum == Mul(collision_radius(object), collision_radius_multiplier)
                 + Mul(collision_radius(other), collision_radius_multiplier)
        dx == object.position.x - other.position.x
        dz == object.position.z - other.position.z
    IN  /\ other.id # object.id
        /\ ~physics(other.object_type).no_stacking_on_top
        /\ Mul(dx, dx) + Mul(dz, dz) < Mul(Mul(sum, sum), 5000)

\* Where object rests on other: other's top plus base_offset * scale
StackY(other, object) ==
    other.position.y + collision_height(other)
      + Mul(physics(object.object_type).base_offset, object.scale)

SetMax(S) == CHOOSE m \in S : \A n \in S : n <= m

\* The resting Y of C11: the highest of base Y and the stack Ys on supports
RestingY(object, objs) ==
    SetMax({base_y(object)}
             \cup {StackY(objs[j], object) :
                      j \in {k \in 1 .. Len(objs) : Supports(objs[k], object)}})

\* C11: calculate_resting_y is the maximum of the base Y and, over the other
\* stackable objects within the distance threshold, other.position.y +
\* other.collision_height() + base_offset * scale; no other object counts
C11_RestingIsMaxOverSupports ==
    \A i \in 1 .. Len(objects) :
        calculate_resting_y(objects[i], objects) = RestingY(objects[i], objects)

\* An object released over two supports of different height: it rests on
\* the higher one
C11_Witness ==
    /\ dragging_object_id = None
    /\ \E i, j, k \in 1 .. Len(objects) :
          /\ Supports(objects[j], objects[i])
          /\ Supports(objects[k], objects[i])
          /\ StackY(objects[k], objects[i]) < StackY(objects[j], objects[i])
          /\ base_y(objects[i]) < StackY(objects[k], objects[i])
          /\ ~objects[i].is_dragging
          /\ objects[i].target_y = StackY(objects[j], objects[i])

\* The id a MouseWheel event acts on
scroll_target_id ==
    IF dragging_object_id # None THEN dragging_object_id
    ELSE IF pointer_locked THEN crosshair_target_id
    ELSE find_object_at_cursor(objects, mouse_position)

\* The id is set and no object of the collection carries it
Removed(id) == id # None /\ id \notin Ids(objects)

\* C18: once the object of the active drag id (or of the scroll target id, or
\* of a panel action's id) has been removed, a move, a release, a scroll and a
\* panel action on that id leave the collection unchanged, and the release sets
\* the drag id to None
C18_RemovedTargetIsNoOp ==
    [][/\ (Removed(dragging_object_id)
            /\ (CursorMoved \/ MouseMotion \/ MouseWheel \/ MouseLeftReleased))
          => objects' = objects
       /\ (Removed(dragging_object_id) /\ MouseLeftReleased)
          => dragging_object_id' = None
       /\ (Removed(scroll_target_id) /\ MouseWheel) => objects' = objects
       /\ Removed(dragging_object_id)
          => process_ui_action(objects, "DeleteObject", dragging_object_id,
                               "Books", Vec3(0, 0, 0)) = objects]_vars

\* The held object was removed with the button still down, another object
\* is left in the collection
C18_Witness ==
    /\ Removed(dragging_object_id)
    /\ left_mouse_down
    /\ Len(objects) = 1

WheelScrolls == {-1000000, -20000, -2000, 2000, 20000, 1000000}

ScaleInit ==
    \E target \in 1 .. 2 :
        /\ objects = <<>>
        /\ next_id = 1
        /\ dragging_object_id = None
        /\ left_mouse_down = FALSE
        /\ mouse_position = 2
        /\ camera = 1
        /\ pointer_locked = TRUE
        /\ crosshair_target_id = target

\* WindowEvent::MouseWheel with Shift held
ShiftScroll ==
    \E scroll \in WheelScrolls :
        /\ objects' = mouse_wheel(scroll, TRUE)
        /\ UNCHANGED <<next_id, dragging_object_id, left_mouse_down,
                       mouse_position, camera, ui_vars>>

ScaleNext == KeyA \/ ShiftScroll

ScaleSpec == ScaleInit /\ [][ScaleNext]_vars

\* C20: every object's scale lies in [0.3, 3.0]: 1.0 at creation, and clamped
\* to the range by every shift+scroll, whatever its size and sign
C20_ScaleWithinLimits ==
    \A i \in 1 .. Len(objects) :
        /\ 3000 <= objects[i].scale
        /\ objects[i].scale <= 30000

\* One object was scrolled down to the lower limit beside one still at 1.0
C20_Witness ==
    /\ Len(objects) = 2
    /\ \E i \in 1 .. 2 : objects[i].scale = 3000 /\ objects[3 - i].scale = Unit

\* C22: update_dropping changes nothing and returns false when the object is
\* held or |position.y - target_y| <= 0.001; otherwise it returns true and
\* changes position.y alone. It never changes x, z, target_y, original_y or
\* is_dragging; in a frame update every object's new value depends on that
\* object alone, and a held object is not moved
C22_DroppingTouchesOnlyY ==
    [][\A drop_speed \in DropSpeeds :
         objects' = update(objects, drop_speed)
           => /\ Len(objects') = Len(objects)
              /\ \A i \in 1 .. Len(objects) :
                    LET a == objects[i]
                        b == objects'[i]
                        r == update_dropping(a, drop_speed)
                    IN  /\ (a.is_dragging \/ Gap(a) <= 10)
                              => (~r.animating /\ r.object = a)
                        /\ ~(a.is_dragging \/ Gap(a) <= 10) => r.animating
                        /\ r.object = [a EXCEPT !.position.y = r.object.position.y]
                        /\ b = IF a.is_dragging THEN a ELSE r.object
                        /\ b = [a EXCEPT !.position.y = b.position.y]
                        /\ a.is_dragging => b = a]_vars

\* One object has fallen half of its 0.5 in one frame while the other, held
\* above its target, has stayed where it was
C22_Witness ==
    \E i \in 1 .. 2 :
        /\ ~objects[i].is_dragging
        /\ Gap(objects[i]) = 2500
        /\ objects[3 - i].is_dragging
        /\ Gap(objects[3 - i]) = 5000

\* C23: after an update_dropping call that moved the object, position.y is
\* exactly target_y or still at least 0.01 away from it: no step leaves a gap
\* strictly between 0 and 0.01
C23_MovedSnapsOrStaysAway ==
    [][\A drop_speed \in DropSpeeds :
         /\ \A i \in 1 .. Len(objects) :
               LET r == update_dropping(objects[i], drop_speed)
               IN  r.animating => (Gap(r.object) = 0 \/ Gap(r.object) >= 100)
         /\ objects' = update(objects, drop_speed)
              => \A i \in 1 .. Len(objects) :
                    objects'[i] # objects[i]
                      => (Gap(objects'[i]) = 0 \/ Gap(objects'[i]) >= 100)]_vars

\* Frames have taken one object to 0.05 from its target, not yet within 0.01,
\* and the other one onto its target
C23_Witness ==
    \E i \in 1 .. 2 :
        /\ ~objects[i].is_dragging
        /\ Gap(objects[i]) = 500
        /\ ~objects[3 - i].is_dragging
        /\ Gap(objects[3 - i]) = 0

\* C27: in every reachable state an object of the collection has is_dragging
\* = true if and only if its id is the active drag id
C27_DraggingIffActiveId ==
    \A i \in 1 .. Len(objects) :
        objects[i].is_dragging <=> objects[i].id = dragging_object_id

\* C28: in every reachable state, if the active drag id is set then an object
\* with that id exists in the collection
C28_ActiveIdExists ==
    dragging_object_id # None => dragging_object_id \in Ids(objects)

\* The events that end a drag through end_drag
EndsDrag == MouseLeftReleased \/ FocusLost \/ MouseRightPressed \/ KeyEscape

\* C29: in every reachable state every object has target_y = original_y; no
\* event but the ones that end a drag (so no pick, move, frame update or
\* scroll) changes either field of an object
C29_TargetIsOriginal ==
    /\ [](\A i \in 1 .. Len(objects) :
             objects[i].target_y = objects[i].original_y)
    /\ [][~EndsDrag
            => \A id \in Ids(objects) \cap Ids(objects') :
                  /\ get_object(objects', id).target_y
                       = get_object(objects, id).target_y
                  /\ get_object(objects', id).original_y
                       = get_object(objects, id).original_y]_vars

\* An object released onto another one: both fields hold the stacked height
C29_Witness ==
    \E i \in 1 .. Len(objects) :
        /\ ~objects[i].is_dragging
        /\ objects[i].target_y > base_y(objects[i])
        /\ objects[i].original_y = objects[i].target_y

(***************************************************************************)
(* The handling specification: the program started as in Init and driven    *)
(* by the left mouse button, the pointer and the frames only.               *)
(***************************************************************************)
HandNext ==
    \/ MouseLeftPressed
    \/ MouseLeftReleased
    \/ CursorMoved
    \/ MouseMotion
    \/ RedrawRequested

HandSpec == Init /\ [][HandNext]_vars

\* Every object but the one with this id is the same before and after the step
OthersUntouched(id) ==
    /\ Len(objects') = Len(objects)
    /\ \A i \in 1 .. Len(objects) :
          objects[i].id # id => objects'[i] = objects[i]

\* C30: a pick, a drag move, a release and a settle step for one object change
\* nothing (position, target_y, original_y, is_dragging) of any other object: a
\* frame gives every object the value update_dropping gives it on its own. A
\* release leaves the released object's position as the last move set it
C30_OneObjectAtATime ==
    [][/\ MouseLeftPressed => OthersUntouched(dragging_object_id')
       /\ (CursorMoved \/ MouseMotion) => OthersUntouched(dragging_object_id)
       /\ MouseLeftReleased
            => /\ OthersUntouched(dragging_object_id)
               /\ \A i \in 1 .. Len(objects) :
                     objects'[i].position = objects[i].position
       /\ objects' = update(objects, DropSpeed)
            => \A i \in 1 .. Len(objects) :
                  /\ objects'[i] = update(<<objects[i]>>, DropSpeed)[1]
                  /\ objects'[i]
                       = [objects[i] EXCEPT !.position.y = objects'[i].position.y]]_vars

\* An object let go over another one hangs at the drag plane's height where
\* the last move put it, inside the other one's collision disk
C30_Witness ==
    /\ dragging_object_id = None
    /\ ~left_mouse_down
    /\ \E i, j \in 1 .. Len(objects) :
          /\ i # j
          /\ ~objects[i].is_dragging
          /\ ~objects[j].is_dragging
          /\ objects[i].position.y = desk_surface_y + 5000
          /\ objects[j].position.y < desk_surface_y + 5000
          /\ check_collision(objects[i], objects[j])

(***************************************************************************)
(* The moving specification: move events along rays that meet the drag     *)
(* plane, run level with it or point away from it, while an object is held *)
(***************************************************************************)
MoveTypes == {"Books", "Globe"}
MoveXs == {0, 11250, 30000}

MoveInit ==
    \E held_type \in MoveTypes, x \in MoveXs, other_type \in MoveTypes,
       other_x \in MoveXs, held_id \in 1 .. 2, locked \in BOOLEAN,
       cam \in RayIds, mp \in RayIds :
        LET held == object_at(held_id, held_type, x, desk_surface_y + 5000,
                              Unit, TRUE)
            other == object_at(3 - held_id, other_type, other_x, desk_surface_y,
                               Unit, FALSE)
        IN  /\ objects = IF held_id = 1 THEN <<held, other>> ELSE <<other, held>>
            /\ next_id = 3
            /\ dragging_object_id = held_id
            /\ left_mouse_down = TRUE
            /\ mouse_position = mp
            /\ camera = cam
            /\ pointer_locked = locked
            /\ crosshair_target_id = None

\* WindowEvent::CursorMoved to any of the rays
CursorMovedAnywhere == \E mp \in AllRayIds : CursorMovedTo(mp)

\* DeviceEvent::MouseMotion to any of the rays
MouseMotionAnywhere == \E cam \in AllRayIds : MouseMotionTo(cam)

MoveNext == CursorMovedAnywhere \/ MouseMotionAnywhere

MoveSpec == MoveInit /\ [][MoveNext]_vars

\* Ray r runs parallel to the drag plane: |normal . direction| < 0.0001
Parallel(r) == Abs(AllRays[r].y) < 1

\* Ray r meets the drag plane's height behind the camera
Behind(r) ==
    /\ ~Parallel(r)
    /\ (desk_surface_y + 5000 - CameraPosition.y) * AllRays[r].y < 0

\* A move event along ray r that reaches update_drag or update_drag_crosshair
\* while an object is held
HeldMove(r) ==
    /\ dragging_object_id # None
    /\ dragging_object_id \in Ids(objects)
    /\ \/ CursorMovedTo(r) /\ ~pointer_locked /\ left_mouse_down
       \/ MouseMotionTo(r)

\* C21: for a drag ray parallel to the drag plane, or meeting it behind the ray
\* origin, ray_plane_intersection yields no intersection and the move event is
\* skipped: the dragged object's position and is_dragging flag and the active
\* drag id stay as they are
C21_NoIntersectionSkipsMove ==
    [][\A r \in AllRayIds :
         (Parallel(r) \/ Behind(r))
           => /\ ~drag_plane_intersection(r).hit
              /\ HeldMove(r)
                   => /\ dragging_object_id' = dragging_object_id
                      /\ get_object(objects', dragging_object_id).position
                           = get_object(objects, dragging_object_id).position
                      /\ get_object(objects', dragging_object_id).is_dragging
                           = get_object(objects, dragging_object_id).is_dragging
                      /\ objects' = objects]_vars

\* The camera looks away from the drag plane (ray 3) with the object still
\* held where it was, off the spots the other rays lead to
C21_Witness ==
    /\ pointer_locked
    /\ camera = 3
    /\ dragging_object_id # None
    /\ get_object(objects, dragging_object_id).is_dragging
    /\ get_object(objects, dragging_object_id).position.x = 30000

(***************************************************************************)
(* The placing specification: physics.rs's desk-plane functions applied to *)
(* an arbitrary object next to an arbitrary other one. objects[1] is the   *)
(* object the functions are called for, objects[2] the other object; the   *)
(* two may carry the same id. A call that panics has no successor state.   *)
(***************************************************************************)
PlaceTypes == {"Clock", "Books"}
PlaceXs == {30000, 30005, 30010, 33000, 34000, 47000, 52000}
PlaceZs == {0, 4000}
PlaceScales == {Unit, 30000}
PlaceMultipliers == {Unit, 40000}
OtherXs == {30000, 46000}
OtherYs == {desk_surface_y, desk_surface_y + 5000}
OtherScales == {3000, Unit}
ClampRadii == {0, 3000, 36000}
DragTargets == {Vec3(0, 0, 0), Vec3(46000, 0, 0), Vec3(60000, 0, -40000)}

PlaceInit ==
    \E object_type \in PlaceTypes, x \in PlaceXs, z \in PlaceZs,
       scale \in PlaceScales, multiplier \in PlaceMultipliers,
       other_id \in 1 .. 2, other_type \in PlaceTypes, other_x \in OtherXs,
       other_y \in OtherYs, other_scale \in OtherScales :
        LET object == [object_at(1, object_type, x, desk_surface_y, scale, FALSE)
                          EXCEPT !.position.z = z,
                                 !.collision_radius_multiplier = multiplier]
            other == object_at(other_id, other_type, other_x, other_y,
                               other_scale, FALSE)
        IN  /\ objects = <<object, other>>
            /\ next_id = 3
            /\ dragging_object_id = None
            /\ left_mouse_down = FALSE
            /\ mouse_position = 1
            /\ camera = 1
            /\ pointer_locked = FALSE
            /\ crosshair_target_id = None

\* The radius find_valid_position clamps and pushes with
effective_radius(obj) == Mul(collision_radius(obj), collision_radius_multiplier)

\* find_valid_position called for objects[1] with its own position as target
Place ==
    /\ ~clamp_to_desk_panics(effective_radius(objects[1]))
    /\ objects' = [objects EXCEPT ![1].position =
                      find_valid_position(objects[1].position, objects[1], objects)]
    /\ UNCHANGED <<next_id, dragging_object_id, left_mouse_down, mouse_position,
                   camera, ui_vars>>

\* clamp_to_desk called on the position of objects[1]
Clamp ==
    \E radius \in ClampRadii :
        /\ ~clamp_to_desk_panics(radius)
        /\ objects' = [objects EXCEPT ![1].position =
                          clamp_to_desk(objects[1].position, radius)]
        /\ UNCHANGED <<next_id, dragging_object_id, left_mouse_down,
                       mouse_position, camera, ui_vars>>

\* update_dragging called for objects[1]
Drag ==
    \E target_xz \in DragTargets :
        /\ ~clamp_to_desk_panics(collision_radius(objects[1]))
        /\ objects' = [objects EXCEPT ![1] =
                          update_dragging(objects[1], target_xz, LiftHeight)]
        /\ UNCHANGED <<next_id, dragging_object_id, left_mouse_down,
                       mouse_position, camera, ui_vars>>

PlaceNext == Place \/ Clamp \/ Drag

PlaceSpec == PlaceInit /\ [][PlaceNext]_vars

\* C12: check_collision gives the same answer for a pair of objects in either
\* order, whatever their ids, positions, scales and multipliers
C12_CollisionSymmetric ==
    \A i, j \in 1 .. Len(objects) :
        check_collision(objects[i], objects[j])
          = check_collision(objects[j], objects[i])

\* Two objects of different radii and ids collide, in both orders
C12_Witness ==
    /\ objects[1].id # objects[2].id
    /\ effective_radius(objects[1]) # effective_radius(objects[2])
    /\ check_collision(objects[1], objects[2])
    /\ check_collision(objects[2], objects[1])

\* The horizontal distance between two objects' centres, rounded down
horizontal_distance(a, b) ==
    LET dx == a.position.x - b.position.x
        dz == a.position.z - b.position.z
    IN  ISqrt(dx * dx + dz * dz)

\* C13: check_collision is false for two objects of the same id and is
\* otherwise true exactly when the horizontal distance between the centres is
\* strictly less than the sum of the effective radii; neither Y nor height
\* enters the answer
C13_CollisionIffCloserThanRadii ==
    \A i, j \in 1 .. Len(objects) :
        check_collision(objects[i], objects[j])
          <=> /\ objects[i].id # objects[j].id
              /\ horizontal_distance(objects[i], objects[j])
                   < effective_radius(objects[i]) + effective_radius(objects[j])

\* Radii 0.2 and 0.2, centres 0.3 apart at different heights: a collision
C13_Witness ==
    /\ objects[1].id # objects[2].id
    /\ effective_radius(objects[1]) = 2000
    /\ effective_radius(objects[2]) = 2000
    /\ horizontal_distance(objects[1], objects[2]) = 3000
    /\ objects[1].position.y # objects[2].position.y
    /\ check_collision(objects[1], objects[2])

\* C14: for every position and every radius >= 0, radii larger than half the
\* desk's width or depth included, clamp_to_desk returns a position and
\* clamping that position again with the same radius returns it unchanged
C14_ClampIdempotent ==
    \A radius \in ClampRadii, i \in 1 .. Len(objects) :
        /\ ~clamp_to_desk_panics(radius)
        /\ clamp_to_desk(clamp_to_desk(objects[i].position, radius), radius)
             = clamp_to_desk(objects[i].position, radius)

\* C15: clamp_to_desk never faults, whatever the radius, and neither do
\* find_valid_position and update_dragging for an object whose radius exceeds
\* half the desk's width or depth
C15_InvertedRangeNeverFaults ==
    /\ \A radius \in ClampRadii : ~clamp_panics(desk_bounds.min_z + radius,
                                                desk_bounds.max_z - radius)
    /\ \A i \in 1 .. Len(objects) :
          /\ ~clamp_to_desk_panics(effective_radius(objects[i]))
          /\ ~clamp_to_desk_panics(collision_radius(objects[i]))

\* A point of the desk plane inside desk_bounds
is_on_desk(position) ==
    /\ desk_bounds.min_x <= position.x /\ position.x <= desk_bounds.max_x
    /\ desk_bounds.min_z <= position.z /\ position.z <= desk_bounds.max_z

\* objects[1], at its target, overlaps the one other object, their centres
\* more than 0.001 apart
OverlapsOther ==
    /\ objects[1].id # objects[2].id
    /\ is_on_desk(objects[1].position)
    /\ horizontal_distance(objects[1], objects[2]) > 10
    /\ horizontal_distance(objects[1], objects[2])
         < effective_radius(objects[1]) + effective_radius(objects[2])

\* C16: for a target inside the desk bounds that overlaps exactly one other
\* object (centres apart), find_valid_position returns a position inside
\* desk_bounds whose horizontal distance to the other object's centre is at
\* least the sum of the two effective radii
C16_PlacedClearOfOther ==
    [][(Place /\ OverlapsOther)
         => /\ is_on_desk(objects'[1].position)
            /\ horizontal_distance(objects'[1], objects[2])
                 >= effective_radius(objects[1]) + effective_radius(objects[2])]_vars

(***************************************************************************)
(* The picking specification: a left press over an arbitrary collection of *)
(* three objects, in pointer-lock and in cursor mode                       *)
(***************************************************************************)
PickTypes == {"Clock", "Books"}

\* On ray 1 at t = 2.5 and at t = 1.875, 0.3 beside ray 1, on ray 1's line
\* behind the camera, on ray 2 at t = 1.0 and on ray 2's line behind the camera
PickPositions == {Vec3(15000, 7500, 0), Vec3(11250, 12500, 0),
                  Vec3(11250, 7500, 0), Vec3(-15000, 47500, 0),
                  Vec3(0, 27500, -10000), Vec3(0, 27500, 10000)}

PickInit ==
    \E t1 \in PickTypes, t2 \in PickTypes, t3 \in PickTypes,
       p1 \in PickPositions, p2 \in PickPositions, p3 \in PickPositions,
       locked \in BOOLEAN, cam \in RayIds, mp \in RayIds :
        /\ objects = <<[DeskObject_new(1, t1, p1) EXCEPT !.position = p1],
                       [DeskObject_new(2, t2, p2) EXCEPT !.position = p2],
                       [DeskObject_new(3, t3, p3) EXCEPT !.position = p3]>>
        /\ next_id = 4
        /\ dragging_object_id = None
        /\ left_mouse_down = FALSE
        /\ mouse_position = mp
        /\ camera = cam
        /\ pointer_locked = locked
        /\ crosshair_target_id = None

PickSpec == PickInit /\ [][MouseLeftPressed]_vars

\* Distance along ray r from the camera to the point nearest obj's centre
ray_t(obj, r) == dot(VSub(obj.position, CameraPosition), AllRays[r])

\* Distance from obj's centre to ray r
ray_dist(obj, r) ==
    length(VSub(VAdd(CameraPosition, VScale(AllRays[r], ray_t(obj, r))),
                obj.position))

\* The objects a pick along ray r may return: in front of the camera and
\* closer to the ray than 1.5 times their collision radius
Pickable(objs, r) ==
    {i \in 1 .. Len(objs) :
        /\ ray_t(objs[i], r) >= 0
        /\ ray_dist(objs[i], r) < Mul(collision_radius(objs[i]), 15000)}

\* id is what a pick along ray r must return
NearestPickable(objs, r, id) ==
    IF Pickable(objs, r) = {} THEN id = None
    ELSE \E i \in Pickable(objs, r) :
            /\ objs[i].id = id
            /\ \A j \in Pickable(objs, r) : ray_t(objs[i], r) <= ray_t(objs[j], r)

\* C17: a pick, at the crosshair or at the cursor, returns the id of an object
\* with the smallest t among the objects with t >= 0 whose centre is closer to
\* the ray than 1.5 x collision_radius, and returns none exactly when there is
\* no such object (so also when every object has t < 0)
C17_PickNearestOnRay ==
    \A r \in RayIds :
        /\ NearestPickable(objects, r, find_object_at_crosshair(objects, r))
        /\ NearestPickable(objects, r, find_object_at_cursor(objects, r))

\* The ray a left press picks along
pick_ray == IF pointer_locked THEN camera ELSE mouse_position

\* A press picked the nearer of two objects on the ray although the farther one
\* comes later in the collection, with the third object behind the camera
C17_Witness ==
    /\ left_mouse_down
    /\ Pickable(objects, pick_ray) = {1, 2}
    /\ ray_t(objects[1], pick_ray) < ray_t(objects[2], pick_ray)
    /\ ray_t(objects[3], pick_ray) < 0
    /\ dragging_object_id = objects[1].id
    /\ objects[1].is_dragging

\* v is the value of [lo, hi] nearest to target
NearestWithin(v, target, lo, hi) ==
    /\ lo <= v /\ v <= hi
    /\ (lo <= target /\ target <= hi) => v = target
    /\ target < lo => v = lo
    /\ target > hi => v = hi

\* C24: update_dragging sets x and z to the target clamped so that the
\* object's collision disk stays on the desk, y to original_y + lift_height and
\* is_dragging to true; it leaves target_y and original_y alone, and neither
\* reads nor changes any other object. For a radius within the desk's
\* half-extents the disk lies within desk_bounds afterwards
C24_DragPlacesClampedAndLifted ==
    [][\A target_xz \in DragTargets :
         (/\ ~clamp_to_desk_panics(collision_radius(objects[1]))
          /\ objects' = [objects EXCEPT ![1] =
                            update_dragging(objects[1], target_xz, LiftHeight)])
           => LET a == objects[1]
                  b == objects'[1]
                  radius == collision_radius(a)
              IN  /\ NearestWithin(b.position.x, target_xz.x,
                                   desk_bounds.min_x + radius,
                                   desk_bounds.max_x - radius)
                  /\ NearestWithin(b.position.z, target_xz.z,
                                   desk_bounds.min_z + radius,
                                   desk_bounds.max_z - radius)
                  /\ b.position.y = a.original_y + LiftHeight
                  /\ b.is_dragging
                  /\ b = [a EXCEPT !.position = b.position, !.is_dragging = TRUE]
                  /\ objects'[2] = objects[2]
                  /\ is_on_desk(Vec3(b.position.x - radius, 0, b.position.z - radius))
                  /\ is_on_desk(Vec3(b.position.x + radius, 0, b.position.z + radius))]_vars

\* The dragged object was held back at the desk's edge, where it overlaps the
\* other object
C24_Witness ==
    /\ objects[1].is_dragging
    /\ objects[1].position.y = objects[1].original_y + LiftHeight
    /\ objects[1].position.x = desk_bounds.max_x - collision_radius(objects[1])
    /\ check_collision(objects[1], objects[2])

(***************************************************************************)
(* The tie specification: a left press over three objects stored in any    *)
(* order of their ids, several of them at the same distance along the ray  *)
(***************************************************************************)

\* The orders in which ids 1, 2 and 3 can be stored
IdOrders == {<<1, 2, 3>>, <<1, 3, 2>>, <<2, 1, 3>>, <<2, 3, 1>>, <<3, 1, 2>>,
             <<3, 2, 1>>}

\* On ray 1 at t = 2.5, 0.2 to either side of it at t = 2.5, on ray 1 at
\* t = 1.875 and on ray 1's line behind the camera
TiePositions == {Vec3(15000, 7500, 0), Vec3(15000, 7500, 2000),
                 Vec3(15000, 7500, -2000), Vec3(11250, 12500, 0),
                 Vec3(-15000, 47500, 0)}

TieInit ==
    \E ids \in IdOrders, p1 \in TiePositions, p2 \in TiePositions,
       p3 \in TiePositions, locked \in BOOLEAN :
        /\ objects = <<[DeskObject_new(ids[1], "Clock", p1) EXCEPT !.position = p1],
                       [DeskObject_new(ids[2], "Clock", p2) EXCEPT !.position = p2],
                       [DeskObject_new(ids[3], "Clock", p3) EXCEPT !.position = p3]>>
        /\ next_id = 4
        /\ dragging_object_id = None
        /\ left_mouse_down = FALSE
        /\ mouse_position = 1
        /\ camera = 1
        /\ pointer_locked = locked
        /\ crosshair_target_id = None

TieSpec == TieInit /\ [][MouseLeftPressed]_vars

\* The pick candidates along ray r at the smallest t
Nearest(objs, r) ==
    {i \in Pickable(objs, r) :
        \A j \in Pickable(objs, r) : ray_t(objs[i], r) <= ray_t(objs[j], r)}

\* Two or more candidates share the smallest t
Tie(objs, r) == Cardinality(Nearest(objs, r)) >= 2

\* C26 as stated: of candidates with identical t a pick returns the one of
\* lowest id, whatever the order the collection is stored in
C26_TieGoesToLowestId ==
    \A r \in RayIds :
        Tie(objects, r)
          => \E i \in Nearest(objects, r) :
                /\ find_object_at_crosshair(objects, r) = objects[i].id
                /\ find_object_at_cursor(objects, r) = objects[i].id
                /\ \A j \in Nearest(objects, r) : objects[i].id <= objects[j].id

\* C26: of candidates with identical t a pick returns the one stored first in
\* the collection
C26_TieGoesToFirstStored ==
    \A r \in RayIds :
        Tie(objects, r)
          => \E i \in Nearest(objects, r) :
                /\ find_object_at_crosshair(objects, r) = objects[i].id
                /\ find_object_at_cursor(objects, r) = objects[i].id
                /\ \A j \in Nearest(objects, r) : i <= j

\* A press picked the first stored of two objects at equal t, which carries
\* the higher id
C26_Witness ==
    /\ left_mouse_down
    /\ Tie(objects, pick_ray)
    /\ \E i \in Nearest(objects, pick_ray) :
          /\ dragging_object_id = objects[i].id
          /\ objects[i].is_dragging
          /\ \E j \in Nearest(objects, pick_ray) :
                i < j /\ objects[j].id < objects[i].id

\* Third objects: one that pushes a candidate at x = 3.0 or 4.6 away, one far off
ThirdObjects == {object_at(3, "Clock", 31000, desk_surface_y, Unit, FALSE),
                 object_at(3, "Clock", 45000, desk_surface_y, Unit, FALSE),
                 object_at(3, "Books", 0, desk_surface_y, Unit, FALSE)}

\* The candidate find_valid_position starts from for objects[1]
candidate == clamp_to_desk(objects[1].position, effective_radius(objects[1]))

\* The candidate lies on the other object's centre, within the near-zero guard
Coincides ==
    /\ ~clamp_to_desk_panics(effective_radius(objects[1]))
    /\ objects[1].id # objects[2].id
    /\ horizontal_distance([position |-> candidate], objects[2]) <= 10

\* C25: when the candidate position coincides with another object's centre
\* (horizontal distance not above 0.001), find_valid_position applies no push
\* for that pair and returns a position: the one the remaining objects and the
\* final clamp produce
C25_CoincidentCentreNotPushed ==
    Coincides
      => /\ find_valid_position(objects[1].position, objects[1], objects)
              = clamp_to_desk(candidate, effective_radius(objects[1]))
         /\ \A third \in ThirdObjects :
               /\ find_valid_position(objects[1].position, objects[1],
                                      <<objects[2], third>>)
                    = find_valid_position(objects[1].position, objects[1],
                                          <<third>>)
               /\ find_valid_position(objects[1].position, objects[1],
                                      <<objects[2], third>>).x \in Int

\* The object was dragged onto the other object's centre, and a third object
\* beside it would push it from there
C25_Witness ==
    /\ Coincides
    /\ objects[1].is_dragging
    /\ \E third \in ThirdObjects :
          find_valid_position(objects[1].position, objects[1],
                              <<objects[2], third>>) # candidate

NeverScaled(objs) == \A i \in 1 .. Len(objs) : objs[i].scale = Unit

NothingRemoved == Len(objects) = next_id - 1

\* The limits of C9: the lowest and the highest resting Y the collection allows
resting_min(obj) ==
    desk_surface_y + Mul(physics(obj.object_type).base_offset, obj.scale)

RECURSIVE heights(_, _)
heights(objs, i) ==
    IF i > Len(objs) THEN 0
    ELSE collision_height(objs[i])
           + Mul(physics(objs[i].object_type).base_offset, objs[i].scale)
           + heights(objs, i + 1)

resting_max(objs) == desk_surface_y + heights(objs, 1)

\* C9: while only picks, moves, releases and frame updates have acted on the
\* objects present (none was rescaled, none removed), every target_y and
\* original_y lies between desk_surface_y + base_offset * scale and
\* desk_surface_y + the sum of all collision heights and base offsets
C9_RestingHeightWithinLimits ==
    (NeverScaled(objects) /\ NothingRemoved)
      => \A i \in 1 .. Len(objects) :
            /\ resting_min(objects[i]) <= objects[i].target_y
            /\ objects[i].target_y <= resting_max(objects)
            /\ resting_min(objects[i]) <= objects[i].original_y
            /\ objects[i].original_y <= resting_max(objects)

====
